---- MODULE Spec2Model ----
(***************************************************************************)
(* Job orchestration of the trading-bot backend: the submission path of    *)
(* the API (services/api/src/main.py), the worker loop and its retry /     *)
(* dead-letter handling (services/worker/src/worker.py) against the Redis  *)
(* store, and the circuit breaker (services/worker/src/worker_old.py).     *)
(*                                                                         *)
(* Redis lists are kept in Redis orientation: LPUSH adds at index 1,       *)
(* BRPOP removes the element at index Len.  The "tail" of a queue (the     *)
(* place served last) is therefore index 1.  Every Redis command is one    *)
(* atomic step; the steps of different processes interleave freely.        *)
(* PUBLISH changes nothing that is kept here and is part of the step of    *)
(* the write it follows; a BRPOP that times out is a stuttering step.      *)
(* In Spec and SpecLive the store answers every call of a worker; of the   *)
(* submission path, the LPUSH may raise.  The Processor is any of: returns *)
(* True, returns False, raises; in SpecProgress and SpecOps it also        *)
(* reports progress.  SpecOps adds what operation brings: store calls of   *)
(* the worker that raise, the DELETE /jobs request and the shutdown        *)
(* signal; SpecErrors adds a BRPOP that raises.  A progress write that     *)
(* raises is swallowed by update_progress and is a stuttering step.        *)
(* SpecHeartbeat puts the loop of worker.py on a clock (seconds): the      *)
(* heartbeat at the top of an iteration, the wait in BRPOP and Processor   *)
(* calls that take time.  SpecGuarded is the loop of worker_old.py, which  *)
(* polls through the circuit breaker and sleeps in its handlers.           *)
(* SpecFaults lets the store calls between the record write and the push   *)
(* of _handle_job_failure raise.  SpecLegacy is the rest of an iteration   *)
(* of worker_old.py, where the loop reads the record once more after       *)
(* _process_job has returned and that read may raise.                      *)
(***************************************************************************)
EXTENDS Integers, Sequences, FiniteSets, TLC

\* ------------------------------------------------------------------ bounds
MaxSubmits == 2        \* submissions in one run, of the same id or not
MaxDispatch == 5       \* cap of the dispatch counter kept for the claims
MaxTime == 125         \* horizon of the breaker's clock, in seconds
MaxCallDur == 1        \* longest duration of one wrapped call, in seconds
MaxErrors == 12        \* cap of consecutive_errors under connection errors

\* ------------------------------------------------------- program constants
max_retries == 3
failure_threshold == 5
timeout == 60
error_ceiling == 10    \* if consecutive_errors > 10: break (worker.py 157)
heartbeat_interval == 30   \* WORKER_HEARTBEAT_INTERVAL (worker.py 38)
heartbeat_ttl == 60    \* setex(.., 60, ..) (worker.py 302)
brpop_timeout == 5     \* self.brpop_timeout (worker.py 39)
socket_timeout == 5    \* socket_timeout=5 (worker_old.py 141)
reject_sleep == 10     \* time.sleep(10) (worker_old.py 199)
reconnect_patience == 5    \* if consecutive_errors > 5 (worker_old.py 257)
reconnect_sleep == 5   \* time.sleep(5) (worker_old.py 261)
reconnect_sleep_long == 30 \* time.sleep(30) (worker_old.py 259)
error_sleep == 1       \* time.sleep(1) (worker_old.py 286)

Workers == {"w1", "w2"}
JobIds == {"m1", "m2", "b1"}
JobTypes == {"migration", "backtest"}
TypeQueues == {"migration", "backtest"}
QueueNames == TypeQueues \cup {"dlq"}

None == "none"         \* Python None / an absent hash field (strings)
Absent == -1           \* an absent numeric hash field

\* the type a job id encodes ("migration:run..", "backtest:..")
TypeOfId(j) == IF j \in {"m1", "m2"} THEN "migration" ELSE "backtest"

\* a key that does not exist: HGETALL returns the empty mapping
NoRec == [type |-> None, status |-> None, progress |-> Absent,
          retry_count |-> Absent, worker_id |-> None]

VARIABLES
    rec,            \* job:<id> hashes of the store
    queue,          \* queue:migration, queue:backtest, queue:dlq
    pc,             \* each worker's position in process_jobs
    cur,            \* each worker's current_job_id
    jtype,          \* job type a worker read from the record
    rcnt,           \* retry_count a worker read in _handle_job_failure
    api,            \* position of the API request handler and its job id
    nsub,           \* history: submissions of each id (record writes)
    enqueued,       \* history: submit has LPUSHed the id
    dispatched,     \* history: times an id was handed to a Processor
    returned,       \* history: some Processor call of the id returned
    touched,        \* history: a worker wrote the record since submit did
    fresh,          \* history: the id had no record when submit wrote it
    arrivals,       \* environment: "bounded" or "unbounded" submissions
    state,          \* breaker: CircuitState
    failure_count,  \* breaker: failure_count
    last_failure_time, \* breaker: last_failure_time (Absent = None)
    now,            \* the clock the breaker reads (time.time())
    last_call,      \* history: outcome of the most recent breaker call
    streak,         \* history: consecutive failures of the wrapped call
    fails,          \* history: failures since the breaker last opened
    recovered,      \* history: a trial call has closed the breaker
    running,        \* each worker's self.running flag
    cerr,           \* each worker's consecutive_errors
    unexp,          \* history: unexpected loop errors in consecutive iterations
    storeerr,       \* history: a store call raised in the worker's iteration
    reported,       \* history: the last percentage a Processor reported for an id
    sigpc,          \* history: where the shutdown signal found the worker
    last_heartbeat, \* each worker's last_heartbeat (process_jobs' local)
    hb_expiry       \* worker:<id>:heartbeat keys: when each expires (Absent = no key)

jobvars == <<rec, queue, pc, cur, jtype, rcnt, api, nsub, enqueued,
             dispatched, returned, touched, fresh, arrivals>>
brkvars == <<state, failure_count, last_failure_time, now, last_call, streak,
             fails, recovered>>
opsvars == <<running, cerr, unexp, storeerr, reported, sigpc>>
hbvars == <<last_heartbeat, hb_expiry>>
vars == <<jobvars, brkvars, opsvars, hbvars>>

\* ------------------------------------------------------------ store helpers
\* RPUSH instead of LPUSH: the value lands at the end that is served first
LpushAtServedEnd(q, x) == q \o <<x>>

\* LPUSH key value
Lpush(q, x) == <<x>> \o q

\* a pop that returns the value pushed last
RpopValueNewest(q) == q[1]

\* what RPOP returns, and the list it leaves
RpopValue(q) == q[Len(q)]
RpopRest(q) == SubSeq(q, 1, Len(q) - 1)

\* a pop that listens on queue:migration only
BrpopKeyMigrationOnly(qs) ==
    IF qs["migration"] # <<>> THEN "migration" ELSE None

\* a pop that serves queue:backtest first
BrpopKeyBacktestFirst(qs) ==
    IF qs["backtest"] # <<>> THEN "backtest"
    ELSE IF qs["migration"] # <<>> THEN "migration"
    ELSE None

\* BRPOP [keys]: the first non-empty key in the order given, or None
BrpopKey(qs) ==
    IF qs["migration"] # <<>> THEN "migration"
    ELSE IF qs["backtest"] # <<>> THEN "backtest"
    ELSE None

\* a write of the count the first retry leaves, instead of an increment
HincrbyFromZero(r) == [r EXCEPT !.retry_count = 1]

\* the increment is lost
HincrbyLost(r) == r

\* HINCRBY key retry_count 1 (an absent field counts as 0)
Hincrby(r) == [r EXCEPT !.retry_count = (IF @ = Absent THEN 0 ELSE @) + 1]

\* int(hget(.., 'retry_count') or 0)
ReadRetryCount(r) == IF r.retry_count = Absent THEN 0 ELSE r.retry_count

\* off by one: one retry too many
RetryAllowedOnceMore(retry_count) == retry_count <= max_retries

\* if retry_count < self.max_retries (worker.py 245)
RetryAllowed(retry_count) == retry_count < max_retries

\* an update that adds the progress to the one the record has
UpdateJobStatusAddsProgress(r, w, status, progress) ==
    [r EXCEPT !.status = status, !.worker_id = w,
              !.progress = (IF @ = Absent THEN 0 ELSE @) + progress]

\* an update that leaves the progress field as it is
UpdateJobStatusKeepsProgress(r, w, status, progress) ==
    [r EXCEPT !.status = status, !.worker_id = w]

\* _update_job_status: HSET of status, progress, message, worker_id, updated_at
UpdateJobStatus(r, w, status, progress) ==
    [r EXCEPT !.status = status, !.progress = progress, !.worker_id = w]

\* job_data with retry_count = 0 in it
SubmitRecordResetsRetries(r, j) ==
    [r EXCEPT !.type = TypeOfId(j), !.status = "queued", !.progress = 0,
              !.retry_count = 0]

\* job_data without its status field
SubmitRecordNoStatus(r, j) ==
    [r EXCEPT !.type = TypeOfId(j), !.progress = 0]

\* create_*_job: HSET of job_data (type, status, progress, ...; no retry_count)
SubmitRecord(r, j) ==
    [r EXCEPT !.type = TypeOfId(j), !.status = "queued", !.progress = 0]

\* submissions so far, over all ids
Submissions == nsub["m1"] + nsub["m2"] + nsub["b1"]

Count(q, x) == Cardinality({i \in 1..Len(q) : q[i] = x})

Inc(n, cap) == IF n < cap THEN n + 1 ELSE n

\* ------------------------------------------------------------------- Init
InitStore ==
    /\ rec = [j \in JobIds |-> NoRec]
    /\ queue = [q \in QueueNames |-> <<>>]

InitJobs ==
    /\ cur = [w \in Workers |-> None]
    /\ jtype = [w \in Workers |-> None]
    /\ rcnt = [w \in Workers |-> 0]
    /\ api = [pc |-> "idle", job |-> None]
    /\ nsub = [j \in JobIds |-> 0]
    /\ enqueued = [j \in JobIds |-> FALSE]
    /\ dispatched = [j \in JobIds |-> 0]
    /\ returned = [j \in JobIds |-> FALSE]
    /\ touched = FALSE
    /\ fresh = FALSE

InitBreaker ==
    /\ state = "closed"
    /\ failure_count = 0
    /\ last_failure_time = Absent
    /\ now = 0
    /\ last_call = None
    /\ streak = 0
    /\ fails = 0
    /\ recovered = FALSE

\* process_jobs before its first iteration: self.running = True,
\* consecutive_errors = 0 (worker.py 33, 76); up are the started workers
InitLoop(up) ==
    /\ pc = [w \in Workers |-> IF w \in up THEN "idle" ELSE "stopped"]
    /\ running = [w \in Workers |-> w \in up]
    /\ cerr = [w \in Workers |-> 0]
    /\ unexp = [w \in Workers |-> 0]
    /\ storeerr = [w \in Workers |-> FALSE]
    /\ reported = [j \in JobIds |-> Absent]
    /\ sigpc = [w \in Workers |-> None]

\* last_heartbeat = time.time() before the loop (worker.py 74); no heartbeat
\* key has been written
InitHeartbeat ==
    /\ last_heartbeat = [w \in Workers |-> 0]
    /\ hb_expiry = [w \in Workers |-> Absent]

Init ==
    /\ InitStore /\ InitJobs /\ InitBreaker /\ InitHeartbeat
    /\ InitLoop(Workers)
    /\ arrivals = "bounded"

\* the same system with requests that never stop arriving and one worker
\* process running (the other one has been shut down)
InitLive ==
    /\ InitStore /\ InitJobs /\ InitBreaker /\ InitHeartbeat
    /\ InitLoop({"w1"})
    /\ arrivals = "unbounded"

\* the ids that arrive without end
LiveIds == {"m1", "b1"}

\* the ids that arrive while the operation of a worker is observed
OpsIds == {"m1"}

\* the requests the environment sends: any id, MaxSubmits times in all
\* ("bounded"), or the same of the ids of OpsIds ("ops"), or without end but
\* then an id only again after its previous job is over and not dead-lettered
\* (which keeps the lists finite)
Arrives(j) ==
    IF arrivals = "bounded"
    THEN Submissions < MaxSubmits
    ELSE IF arrivals = "ops"
    THEN j \in OpsIds /\ Submissions < MaxSubmits
    ELSE IF arrivals = "once"
    THEN j \in OpsIds /\ Submissions = 0
    ELSE /\ j \in LiveIds
         /\ Count(queue["migration"], j) + Count(queue["backtest"], j) = 0
         /\ Count(queue["dlq"], j) = 0
         /\ \A w \in Workers : cur[w] # j

\* where the dispatch counter and the submission counter stop counting
HistoryCap == IF arrivals = "bounded" THEN MaxDispatch ELSE 1
SubmitCap == IF arrivals = "unbounded" THEN 1 ELSE MaxSubmits

\* a worker's write to a record is seen by the submission in progress
Touch(j) == touched' = (touched \/ (api.pc \in {"hset", "pushed"} /\ api.job = j))

\* ------------------------------------------------------- API: submission
\* create_migration_job / create_backtest_job, HSET job:<id> (main.py 226, 274)
SubmitHset(j) ==
    /\ api.pc = "idle"
    /\ Arrives(j)
    /\ rec' = [rec EXCEPT ![j] = SubmitRecord(rec[j], j)]
    /\ api' = [pc |-> "hset", job |-> j]
    /\ nsub' = [nsub EXCEPT ![j] = Inc(@, SubmitCap)]
    /\ fresh' = (rec[j] = NoRec)
    /\ touched' = FALSE
    /\ UNCHANGED <<queue, pc, cur, jtype, rcnt, enqueued, dispatched, returned>>
    /\ UNCHANGED <<brkvars, hbvars, arrivals, opsvars>>

\* LPUSH queue:<type> (main.py 227, 275)
SubmitLpush ==
    /\ api.pc = "hset"
    /\ queue' = [queue EXCEPT ![TypeOfId(api.job)] = Lpush(@, api.job)]
    /\ enqueued' = [enqueued EXCEPT ![api.job] = TRUE]
    /\ api' = [api EXCEPT !.pc = "pushed"]
    /\ UNCHANGED <<rec, pc, cur, jtype, rcnt, nsub, dispatched, returned,
                   touched, fresh>>
    /\ UNCHANGED <<brkvars, hbvars, arrivals, opsvars>>

\* the LPUSH raises: except-branch, HTTP 500, nothing is undone (main.py 246-248)
SubmitLpushFails ==
    /\ api.pc = "hset"
    /\ api' = [pc |-> "idle", job |-> None]
    /\ touched' = FALSE
    /\ fresh' = FALSE
    /\ UNCHANGED <<rec, queue, pc, cur, jtype, rcnt, nsub, enqueued,
                   dispatched, returned>>
    /\ UNCHANGED <<brkvars, hbvars, arrivals, opsvars>>

\* get_job_status: HGETALL job:<id>; the empty mapping is "not found"
GetJobStatus(j) == rec[j]

\* the handler returns JobResponse(job_id, "queued") (main.py 228-244)
SubmitReturn ==
    /\ api.pc = "pushed"
    /\ api' = [pc |-> "idle", job |-> None]
    /\ touched' = FALSE
    /\ fresh' = FALSE
    /\ UNCHANGED <<rec, queue, pc, cur, jtype, rcnt, nsub, enqueued,
                   dispatched, returned>>
    /\ UNCHANGED <<brkvars, hbvars, arrivals, opsvars>>

\* ------------------------------------------------- worker: process_jobs
\* a loop that does not test self.running
InPollAlways(w) == pc[w] \in {"idle", "brpop"}

\* the worker is inside the BRPOP of an iteration: it passed the loop test
\* `while self.running` (worker.py 78), or the signal came during the wait
InPoll(w) == (pc[w] = "idle" /\ running[w]) \/ pc[w] = "brpop"

\* BRPOP [queue:migration, queue:backtest] returns an id; consecutive_errors
\* = 0 (worker.py 78-99)
Claim(w) ==
    /\ InPoll(w)
    /\ BrpopKey(queue) # None
    /\ LET k == BrpopKey(queue) IN
        /\ cur' = [cur EXCEPT ![w] = RpopValue(queue[k])]
        /\ queue' = [queue EXCEPT ![k] = RpopRest(@)]
    /\ pc' = [pc EXCEPT ![w] = "mark"]
    /\ cerr' = [cerr EXCEPT ![w] = 0]
    /\ unexp' = [unexp EXCEPT ![w] = 0]
    /\ storeerr' = [storeerr EXCEPT ![w] = FALSE]
    /\ UNCHANGED <<rec, jtype, rcnt, api, nsub, enqueued, dispatched,
                   returned, touched, fresh>>
    /\ UNCHANGED <<brkvars, hbvars, arrivals, running, reported, sigpc>>

\* _update_job_status(job_id, 'running', 0, ..) (worker.py 104)
MarkRunning(w) ==
    /\ pc[w] = "mark"
    /\ rec' = [rec EXCEPT ![cur[w]] = UpdateJobStatus(@, w, "running", 0)]
    /\ Touch(cur[w])
    /\ pc' = [pc EXCEPT ![w] = "load"]
    /\ UNCHANGED <<queue, cur, jtype, rcnt, api, nsub, enqueued, dispatched,
                   returned, fresh>>
    /\ UNCHANGED <<brkvars, hbvars, arrivals, opsvars>>

\* a load that hands every popped id to a Processor
DispatchableAlways(job_info) == TRUE

\* _process_job goes on to a Processor: the HGETALL is not empty (worker.py
\* 170-172) and the type is one it knows (worker.py 174-182)
Dispatchable(job_info) == job_info # NoRec /\ job_info.type \in JobTypes

\* _process_job: HGETALL, then dispatch on the type (worker.py 168-182);
\* no record or an unknown type returns False, and the loop clears
\* current_job_id (worker.py 121)
LoadJob(w) ==
    /\ pc[w] = "load"
    /\ LET job_info == rec[cur[w]] IN
        IF Dispatchable(job_info)
        THEN /\ pc' = [pc EXCEPT ![w] = "proc"]
             /\ jtype' = [jtype EXCEPT ![w] = job_info.type]
             /\ dispatched' = [dispatched EXCEPT ![cur[w]] = Inc(@, HistoryCap)]
             /\ cur' = cur
        ELSE /\ pc' = [pc EXCEPT ![w] = "idle"]
             /\ cur' = [cur EXCEPT ![w] = None]
             /\ UNCHANGED <<jtype, dispatched>>
    /\ UNCHANGED <<rec, queue, rcnt, api, nsub, enqueued, returned, touched, fresh>>
    /\ UNCHANGED <<brkvars, hbvars, arrivals, opsvars>>

\* the percentages a Processor reports
ProgressValues == {30, 100}

\* update_progress: HSET of progress and message only
\* (base_processor.py 24-32)
UpdateProgress(r, progress) == [r EXCEPT !.progress = progress]

\* the Processor calls update_progress(job_id, p, ..) (migration_processor.py
\* 93-97, backtest_processor.py 37)
Progress(w, p) ==
    /\ pc[w] = "proc"
    /\ rec' = [rec EXCEPT ![cur[w]] = UpdateProgress(@, p)]
    /\ Touch(cur[w])
    /\ reported' = [reported EXCEPT ![cur[w]] = p]
    /\ UNCHANGED <<queue, pc, cur, jtype, rcnt, api, nsub, enqueued,
                   dispatched, returned, fresh>>
    /\ UNCHANGED <<brkvars, hbvars, arrivals, running, cerr, unexp, storeerr, sigpc>>

\* the Processor returns True or False (worker.py 108-121, 177-179)
ProcessorReturns(w, success) ==
    /\ pc[w] = "proc"
    /\ returned' = [returned EXCEPT ![cur[w]] = TRUE]
    /\ IF success
       THEN /\ pc' = [pc EXCEPT ![w] = "complete"]
            /\ cur' = cur
       ELSE /\ pc' = [pc EXCEPT ![w] = "idle"]
            /\ cur' = [cur EXCEPT ![w] = None]
    /\ jtype' = [jtype EXCEPT ![w] = None]
    /\ UNCHANGED <<rec, queue, rcnt, api, nsub, enqueued, dispatched,
                   touched, fresh>>
    /\ UNCHANGED <<brkvars, hbvars, arrivals, opsvars>>

\* the Processor raises: _process_job's except-branch calls
\* _handle_job_failure (worker.py 184-187, 211-213, 236-238)
ProcessorRaises(w) ==
    /\ pc[w] = "proc"
    /\ pc' = [pc EXCEPT ![w] = "hf_read"]
    /\ UNCHANGED <<rec, queue, cur, jtype, rcnt, api, nsub, enqueued,
                   dispatched, returned, touched, fresh>>
    /\ UNCHANGED <<brkvars, hbvars, arrivals, opsvars>>

\* _update_job_status(job_id, 'completed', 100, ..) (worker.py 111-121)
Complete(w) ==
    /\ pc[w] = "complete"
    /\ rec' = [rec EXCEPT ![cur[w]] = UpdateJobStatus(@, w, "completed", 100)]
    /\ Touch(cur[w])
    /\ pc' = [pc EXCEPT ![w] = "idle"]
    /\ cur' = [cur EXCEPT ![w] = None]
    /\ UNCHANGED <<queue, jtype, rcnt, api, nsub, enqueued, dispatched,
                   returned, fresh>>
    /\ UNCHANGED <<brkvars, hbvars, arrivals, opsvars>>

\* ------------------------------------------ worker: _handle_job_failure
\* retry_count = int(HGET job:<id> retry_count or 0) (worker.py 243-245)
HfRead(w) ==
    /\ pc[w] = "hf_read"
    /\ LET retry_count == ReadRetryCount(rec[cur[w]]) IN
        /\ rcnt' = [rcnt EXCEPT ![w] = retry_count]
        /\ pc' = [pc EXCEPT ![w] =
                    IF RetryAllowed(retry_count) THEN "hf_incr" ELSE "hf_failed"]
    /\ UNCHANGED <<rec, queue, cur, jtype, api, nsub, enqueued, dispatched,
                   returned, touched, fresh>>
    /\ UNCHANGED <<brkvars, hbvars, arrivals, opsvars>>

\* HINCRBY job:<id> retry_count 1 (worker.py 246)
HfIncr(w) ==
    /\ pc[w] = "hf_incr"
    /\ rec' = [rec EXCEPT ![cur[w]] = Hincrby(@)]
    /\ Touch(cur[w])
    /\ pc' = [pc EXCEPT ![w] = "hf_status"]
    /\ UNCHANGED <<queue, cur, jtype, rcnt, api, nsub, enqueued, dispatched,
                   returned, fresh>>
    /\ UNCHANGED <<brkvars, hbvars, arrivals, opsvars>>

\* _update_job_status(job_id, 'retry_scheduled', 0, ..) (worker.py 248-253)
HfStatus(w) ==
    /\ pc[w] = "hf_status"
    /\ rec' = [rec EXCEPT ![cur[w]] = UpdateJobStatus(@, w, "retry_scheduled", 0)]
    /\ Touch(cur[w])
    /\ pc' = [pc EXCEPT ![w] = "hf_type"]
    /\ UNCHANGED <<queue, cur, jtype, rcnt, api, nsub, enqueued, dispatched,
                   returned, fresh>>
    /\ UNCHANGED <<brkvars, hbvars, arrivals, opsvars>>

\* job_type = HGETALL(job:<id>).get('type') (worker.py 256-257)
HfType(w) ==
    /\ pc[w] = "hf_type"
    /\ jtype' = [jtype EXCEPT ![w] = rec[cur[w]].type]
    /\ pc' = [pc EXCEPT ![w] = "hf_push"]
    /\ UNCHANGED <<rec, queue, cur, rcnt, api, nsub, enqueued, dispatched,
                   returned, touched, fresh>>
    /\ UNCHANGED <<brkvars, hbvars, arrivals, opsvars>>

\* the list LPUSH queue:<job_type> leaves; a type that names no queue of the
\* model pushes onto a key nobody reads
Requeue(qs, t, j) ==
    IF t \in TypeQueues THEN [qs EXCEPT ![t] = Lpush(@, j)] ELSE qs

\* LPUSH queue:<job_type> job_id, then back in the loop current_job_id = None
\* (worker.py 258, 121)
HfPush(w) ==
    /\ pc[w] = "hf_push"
    /\ queue' = Requeue(queue, jtype[w], cur[w])
    /\ pc' = [pc EXCEPT ![w] = "idle"]
    /\ cur' = [cur EXCEPT ![w] = None]
    /\ jtype' = [jtype EXCEPT ![w] = None]
    /\ rcnt' = [rcnt EXCEPT ![w] = 0]
    /\ UNCHANGED <<rec, api, nsub, enqueued, dispatched,
                   returned, touched, fresh>>
    /\ UNCHANGED <<brkvars, hbvars, arrivals, opsvars>>

\* _update_job_status(job_id, 'failed', 0, ..) (worker.py 262-267)
HfFailed(w) ==
    /\ pc[w] = "hf_failed"
    /\ rec' = [rec EXCEPT ![cur[w]] = UpdateJobStatus(@, w, "failed", 0)]
    /\ Touch(cur[w])
    /\ pc' = [pc EXCEPT ![w] = "hf_dlq"]
    /\ UNCHANGED <<queue, cur, jtype, rcnt, api, nsub, enqueued, dispatched,
                   returned, fresh>>
    /\ UNCHANGED <<brkvars, hbvars, arrivals, opsvars>>

\* LPUSH queue:dlq job_id, then current_job_id = None (worker.py 268, 121)
HfDlq(w) ==
    /\ pc[w] = "hf_dlq"
    /\ queue' = [queue EXCEPT !["dlq"] = Lpush(@, cur[w])]
    /\ pc' = [pc EXCEPT ![w] = "idle"]
    /\ cur' = [cur EXCEPT ![w] = None]
    /\ jtype' = [jtype EXCEPT ![w] = None]
    /\ rcnt' = [rcnt EXCEPT ![w] = 0]
    /\ UNCHANGED <<rec, api, nsub, enqueued, dispatched,
                   returned, touched, fresh>>
    /\ UNCHANGED <<brkvars, hbvars, arrivals, opsvars>>

\* the Processor call ends
ProcessorEnds(w) ==
    \/ \E success \in BOOLEAN : ProcessorReturns(w, success)
    \/ ProcessorRaises(w)

\* one step of one worker
WorkerStep(w) ==
    \/ Claim(w)
    \/ MarkRunning(w)
    \/ LoadJob(w)
    \/ ProcessorEnds(w)
    \/ Complete(w)
    \/ HfRead(w)
    \/ HfIncr(w)
    \/ HfStatus(w)
    \/ HfType(w)
    \/ HfPush(w)
    \/ HfFailed(w)
    \/ HfDlq(w)

Submit ==
    \/ \E j \in JobIds : SubmitHset(j)
    \/ SubmitLpush
    \/ SubmitLpushFails
    \/ SubmitReturn

Next ==
    \/ Submit
    \/ \E w \in Workers : WorkerStep(w)

Spec == Init /\ [][Next]_vars

\* the same system with Processors that report progress while they run
Reports == \E w \in Workers, p \in ProgressValues : Progress(w, p)

NextProgress == Next \/ Reports

\* all workers started, submissions of the ids of OpsIds
InitProgress ==
    /\ InitStore /\ InitJobs /\ InitBreaker /\ InitHeartbeat
    /\ InitLoop(Workers)
    /\ arrivals = "ops"

SpecProgress == InitProgress /\ [][NextProgress]_vars

\* every worker process keeps running its loop: the operating system
\* schedules it, no store call blocks for ever and every Processor call ends
WorkersRun ==
    \A w \in Workers : WF_vars(WorkerStep(w)) /\ WF_vars(ProcessorEnds(w))

SpecLive == InitLive /\ [][Next]_vars /\ WorkersRun

\* ------------------------------------------------- worker in operation
\* DELETE /jobs/{job_id}: DEL job:<id>, whatever the job's state; the queues
\* are not touched (main.py 391-400)
DeleteJob(j) ==
    /\ api.pc = "idle"
    /\ rec[j] # NoRec
    /\ rec' = [rec EXCEPT ![j] = NoRec]
    /\ UNCHANGED <<queue, pc, cur, jtype, rcnt, api, nsub, enqueued,
                   dispatched, returned, touched, fresh>>
    /\ UNCHANGED <<brkvars, hbvars, arrivals, opsvars>>

\* the HGETALL of _process_job raises: its except-branch calls
\* _handle_job_failure (worker.py 168, 184-187)
LoadJobRaises(w) ==
    /\ pc[w] = "load"
    /\ pc' = [pc EXCEPT ![w] = "hf_read"]
    /\ storeerr' = [storeerr EXCEPT ![w] = TRUE]
    /\ UNCHANGED <<rec, queue, cur, jtype, rcnt, api, nsub, enqueued,
                   dispatched, returned, touched, fresh>>
    /\ UNCHANGED <<brkvars, hbvars, arrivals, running, cerr, unexp, reported, sigpc>>

\* the places of the loop that call _update_job_status (worker.py 104, 112,
\* 248, 262)
UpdateSites == {"mark", "complete", "hf_status", "hf_failed"}

\* where the worker is after the call of _update_job_status at p has returned
AfterUpdate(p) ==
    CASE p = "mark" -> "load"
      [] p = "complete" -> "idle"
      [] p = "hf_status" -> "hf_type"
      [] p = "hf_failed" -> "hf_dlq"

\* an error of the write that ends the iteration
OnUpdateErrorAborts(p) == "idle"

\* except Exception: logger.error(..) in _update_job_status: the call returns
\* as if it had written (worker.py 294-295)
OnUpdateError(p) == AfterUpdate(p)

\* the HSET of _update_job_status raises: nothing is written (worker.py
\* 276-295).  When only the PUBLISH raises the record is written and the step
\* is that of the write itself.
UpdateStatusFails(w) ==
    /\ pc[w] \in UpdateSites
    /\ pc' = [pc EXCEPT ![w] = OnUpdateError(pc[w])]
    /\ cur' = [cur EXCEPT ![w] = IF pc'[w] = "idle" THEN None ELSE @]
    /\ UNCHANGED <<rec, queue, jtype, rcnt, api, nsub, enqueued,
                   dispatched, returned, touched, fresh>>
    /\ UNCHANGED <<brkvars, hbvars, arrivals, opsvars>>

\* BRPOP raises redis ConnectionError: consecutive_errors += 1, sleep, PING;
\* a PING that answers sets consecutive_errors = 0 (worker.py 127-144)
ConnError(w, ping_ok) ==
    /\ InPoll(w)
    /\ cerr[w] < MaxErrors
    /\ cerr' = [cerr EXCEPT ![w] = IF ping_ok THEN 0 ELSE @ + 1]
    /\ unexp' = [unexp EXCEPT ![w] = 0]
    /\ pc' = [pc EXCEPT ![w] = "idle"]
    /\ UNCHANGED <<rec, queue, cur, jtype, rcnt, api, nsub, enqueued,
                   dispatched, returned, touched, fresh>>
    /\ UNCHANGED <<brkvars, hbvars, arrivals, running, storeerr, reported, sigpc>>

\* if consecutive_errors > 10: break (worker.py 157-159)
CeilingExceeded(count) == count > error_ceiling

\* BRPOP raises another error: consecutive_errors += 1; current_job_id is
\* None; break above the ceiling, else sleep and go on (worker.py 146-161)
LoopError(w) ==
    /\ InPoll(w)
    /\ cerr' = [cerr EXCEPT ![w] = @ + 1]
    /\ unexp' = [unexp EXCEPT ![w] = @ + 1]
    /\ pc' = [pc EXCEPT ![w] =
                IF CeilingExceeded(cerr[w] + 1) THEN "stopped" ELSE "idle"]
    /\ UNCHANGED <<rec, queue, cur, jtype, rcnt, api, nsub, enqueued,
                   dispatched, returned, touched, fresh>>
    /\ UNCHANGED <<brkvars, hbvars, arrivals, running, storeerr, reported, sigpc>>

\* SIGTERM / SIGINT: _handle_shutdown sets self.running = False; a worker
\* that waits in BRPOP (in_poll) stays in that call (worker.py 65-68)
Shutdown(w, in_poll) ==
    /\ running[w]
    /\ pc[w] # "stopped"
    /\ running' = [running EXCEPT ![w] = FALSE]
    /\ pc' = [pc EXCEPT ![w] = IF @ = "idle" /\ in_poll THEN "brpop" ELSE @]
    /\ sigpc' = [sigpc EXCEPT ![w] = pc'[w]]
    /\ UNCHANGED <<rec, queue, cur, jtype, rcnt, api, nsub, enqueued,
                   dispatched, returned, touched, fresh>>
    /\ UNCHANGED <<brkvars, hbvars, arrivals, cerr, unexp, storeerr, reported>>

\* the BRPOP a signalled worker waits in times out: continue (worker.py 91-93)
BrpopTimeout(w) ==
    /\ pc[w] = "brpop"
    /\ pc' = [pc EXCEPT ![w] = "idle"]
    /\ UNCHANGED <<rec, queue, cur, jtype, rcnt, api, nsub, enqueued,
                   dispatched, returned, touched, fresh>>
    /\ UNCHANGED <<brkvars, hbvars, arrivals, opsvars>>

\* while self.running is false: the loop ends (worker.py 78, 163)
Exit(w) ==
    /\ pc[w] = "idle"
    /\ ~running[w]
    /\ pc' = [pc EXCEPT ![w] = "stopped"]
    /\ UNCHANGED <<rec, queue, cur, jtype, rcnt, api, nsub, enqueued,
                   dispatched, returned, touched, fresh>>
    /\ UNCHANGED <<brkvars, hbvars, arrivals, opsvars>>

\* one step of one worker in operation
WorkerOpsStep(w) ==
    \/ WorkerStep(w)
    \/ \E p \in ProgressValues : Progress(w, p)
    \/ LoadJobRaises(w)
    \/ UpdateStatusFails(w)
    \/ BrpopTimeout(w)
    \/ Exit(w)

NextOps ==
    \/ Submit
    \/ \E j \in JobIds : DeleteJob(j)
    \/ \E w \in Workers : WorkerOpsStep(w)
    \/ \E w \in Workers, in_poll \in BOOLEAN : Shutdown(w, in_poll)

\* the workers in operation
OpsWorkers == {"w1"}

InitOps ==
    /\ InitStore /\ InitJobs /\ InitBreaker /\ InitHeartbeat
    /\ InitLoop(OpsWorkers)
    /\ arrivals = "ops"

\* the worker process is scheduled, no store call blocks for ever and every
\* Processor call ends
OpsWorkersRun ==
    \A w \in Workers : WF_vars(WorkerOpsStep(w)) /\ WF_vars(ProcessorEnds(w))

SpecOps == InitOps /\ [][NextOps]_vars /\ OpsWorkersRun

\* one step of one worker whose BRPOP may raise
WorkerErrorsStep(w) ==
    \/ WorkerStep(w)
    \/ \E ping_ok \in BOOLEAN : ConnError(w, ping_ok)
    \/ LoopError(w)
    \/ BrpopTimeout(w)
    \/ Exit(w)

NextErrors ==
    \/ Submit
    \/ \E w \in Workers : WorkerErrorsStep(w)
    \/ \E w \in Workers, in_poll \in BOOLEAN : Shutdown(w, in_poll)

SpecErrors == InitOps /\ [][NextErrors]_vars

\* ------------------------------------------------------------- heartbeat
\* time.time() - last_heartbeat > self.heartbeat_interval (worker.py 81)
HeartbeatDue(t, last) == t - last > heartbeat_interval

\* _update_heartbeat at time t: SETEX worker:<id>:heartbeat 60 .. ; the key
\* is gone heartbeat_ttl seconds later (worker.py 297-304)
SetexExpiry(t) == t + heartbeat_ttl

\* the worker's heartbeat key exists
HeartbeatAlive(w) == hb_expiry[w] # Absent /\ now < hb_expiry[w]

\* the seconds BRPOP blocks: none when an id waits, else brpop_timeout, at the
\* end of which an id has arrived or the call returns None (worker.py 86-89)
BrpopWait(qs) == IF BrpopKey(qs) # None THEN 0 ELSE brpop_timeout

\* the top of an iteration: the heartbeat is written if it is due, then the
\* worker waits in BRPOP (worker.py 78-89)
LoopTop(w) ==
    /\ pc[w] = "idle" /\ running[w]
    /\ now + BrpopWait(queue) <= MaxTime
    /\ IF HeartbeatDue(now, last_heartbeat[w])
       THEN /\ hb_expiry' = [hb_expiry EXCEPT ![w] = SetexExpiry(now)]
            /\ last_heartbeat' = [last_heartbeat EXCEPT ![w] = now]
       ELSE UNCHANGED hbvars
    /\ now' = now + BrpopWait(queue)
    /\ pc' = [pc EXCEPT ![w] = "brpop"]
    /\ UNCHANGED <<rec, queue, cur, jtype, rcnt, api, nsub, enqueued,
                   dispatched, returned, touched, fresh, arrivals>>
    /\ UNCHANGED <<state, failure_count, last_failure_time, last_call, streak,
                   fails, recovered, opsvars>>

\* a second passes while the Processor works on the job: processor.process is
\* a blocking call inside the iteration (worker.py 108, 165-187)
ProcessorWorks(w) ==
    /\ pc[w] = "proc"
    /\ now < MaxTime
    /\ now' = now + 1
    /\ UNCHANGED <<state, failure_count, last_failure_time, last_call, streak,
                   fails, recovered>>
    /\ UNCHANGED <<jobvars, opsvars, hbvars>>

\* one step of one worker whose clock is watched: the BRPOP returns an id or
\* times out, and the iteration goes on from there
WorkerTimedStep(w) ==
    \/ LoopTop(w)
    \/ (pc[w] # "idle" /\ WorkerStep(w))
    \/ (BrpopKey(queue) = None /\ BrpopTimeout(w))
    \/ ProcessorWorks(w)

NextHeartbeat ==
    \/ Submit
    \/ \E w \in Workers : WorkerTimedStep(w)

SpecHeartbeat == InitOps /\ [][NextHeartbeat]_vars

\* ------------------------------------------------------ circuit breaker
\* the open period ends with the second that completes the timeout
TimeoutReached(t, last) == t - last >= timeout

\* time.time() - self.last_failure_time > self.timeout (worker_old.py 70)
TimeoutElapsed(t, last) == t - last > timeout

\* off by one: opens one failure late
ThresholdExceeded(count) == count > failure_threshold

\* self.failure_count >= self.failure_threshold (worker_old.py 96)
ThresholdReached(count) == count >= failure_threshold

\* an open breaker that lets every call through as a trial
AdmitAll(st, t, last) == IF st = "open" THEN "half_open" ELSE st

\* the state in which call() invokes the wrapped function, or "rejected"
\* when it raises "Circuit breaker is OPEN" instead (worker_old.py 69-74)
Admit(st, t, last) ==
    IF st = "open"
    THEN IF TimeoutElapsed(t, last) THEN "half_open" ELSE "rejected"
    ELSE st

\* a success that leaves the count as it is
OnSuccessCountKept(count) == count

\* _on_success: self.failure_count = 0 (worker_old.py 86)
OnSuccessCount(count) == 0

\* _on_failure: self.failure_count += 1 (worker_old.py 93)
OnFailureCount(count) == count + 1

\* a failure that keeps the time of the failure that opened the breaker
OnFailureTimeKept(last, t) == IF last = Absent THEN t ELSE last

\* _on_failure: self.last_failure_time = time.time() (worker_old.py 94)
OnFailureTime(last, t) == t

\* a success that leaves the state as the call found it
OnSuccessStateKept(st) == st

\* _on_success: the state it leaves (worker_old.py 84-89)
OnSuccessState(st) == IF st = "half_open" THEN "closed" ELSE st

\* a failure that opens a closed breaker only, and leaves a trial pending
OnFailureStateClosedOnly(st, count) ==
    IF ThresholdReached(count) /\ st = "closed" THEN "open" ELSE st

\* _on_failure: the state it leaves, count being the incremented failure_count
\* (worker_old.py 96-99)
OnFailureState(st, count) ==
    IF ThresholdReached(count) /\ st # "open" THEN "open" ELSE st

\* CircuitBreaker.call(func): the wrapped function runs for d seconds and then
\* returns (success) or raises (worker_old.py 67-99)
BreakerCall(success, d) ==
    /\ now + d <= MaxTime
    /\ LET st == Admit(state, now, last_failure_time) IN
        IF st = "rejected"
        THEN /\ last_call' = "rejected"
             /\ UNCHANGED <<state, failure_count, last_failure_time, now, streak,
                            fails, recovered>>
        ELSE /\ now' = now + d
             /\ IF success
                THEN /\ failure_count' = OnSuccessCount(failure_count)
                     /\ state' = OnSuccessState(st)
                     /\ last_failure_time' = last_failure_time
                     /\ streak' = 0
                     /\ fails' = fails
                     /\ recovered' = (recovered \/ st = "half_open")
                     /\ last_call' = IF st = "half_open" THEN "trial_ok" ELSE "ok"
                ELSE /\ failure_count' = OnFailureCount(failure_count)
                     /\ last_failure_time' = OnFailureTime(last_failure_time, now + d)
                     /\ recovered' = recovered
                     /\ state' = OnFailureState(st, OnFailureCount(failure_count))
                     /\ streak' = streak + 1
                     /\ fails' = IF state' = "open" THEN 0
                                 ELSE Inc(fails, failure_threshold)
                     /\ last_call' = IF st = "half_open" THEN "trial_failed"
                                     ELSE "failed"
    /\ UNCHANGED <<jobvars, opsvars, hbvars>>

\* a second passes between two calls
Tick ==
    /\ now < MaxTime
    /\ now' = now + 1
    /\ UNCHANGED <<state, failure_count, last_failure_time, last_call, streak,
                   fails, recovered>>
    /\ UNCHANGED <<jobvars, opsvars, hbvars>>

NextBreaker ==
    \/ \E success \in BOOLEAN, d \in 0..MaxCallDur : BreakerCall(success, d)
    \/ Tick

SpecBreaker == Init /\ [][NextBreaker]_vars

\* ----------------------------------------- failure handling on a faulty store
\* where _handle_job_failure has written the record and not yet pushed the id
PushSites == {"hf_type", "hf_push", "hf_dlq"}

\* the HGETALL or the LPUSH that follows the record write raises: the except
\* of _handle_job_failure logs it, _process_job returns False and the loop
\* sets current_job_id = None (worker.py 256-258, 268, 271-272, 121)
HfPushFails(w) ==
    /\ pc[w] \in PushSites
    /\ pc' = [pc EXCEPT ![w] = "idle"]
    /\ cur' = [cur EXCEPT ![w] = None]
    /\ jtype' = [jtype EXCEPT ![w] = None]
    /\ rcnt' = [rcnt EXCEPT ![w] = 0]
    /\ storeerr' = [storeerr EXCEPT ![w] = TRUE]
    /\ UNCHANGED <<rec, queue, api, nsub, enqueued, dispatched,
                   returned, touched, fresh>>
    /\ UNCHANGED <<brkvars, hbvars, arrivals, running, cerr, unexp, reported, sigpc>>

NextFaults ==
    \/ Submit
    \/ \E w \in Workers : WorkerStep(w)
    \/ \E w \in Workers : HfPushFails(w)

SpecFaults == InitOps /\ [][NextFaults]_vars

\* ------------------------------------- the loop that polls through the breaker
\* the steps of an iteration after its claim
IterationStep(w) ==
    \/ MarkRunning(w)
    \/ LoadJob(w)
    \/ ProcessorEnds(w)
    \/ Complete(w)
    \/ HfRead(w)
    \/ HfIncr(w)
    \/ HfStatus(w)
    \/ HfType(w)
    \/ HfPush(w)
    \/ HfFailed(w)
    \/ HfDlq(w)

\* what self.redis.brpop does when the breaker invokes it: returns an id,
\* returns None after brpop_timeout, or raises what redis-py raises when the
\* store is away: ConnectionError, or TimeoutError after socket_timeout
PollOutcomes == {"job", "none", "connection", "timeout"}

\* the exception process_jobs sees from redis_breaker.call(self.redis.brpop,
\* ..): the breaker's own when it rejects, else the one brpop raised, or None
\* (worker_old.py 67-82, 190-195)
PollError(st, outcome) ==
    IF st = "rejected" THEN "Circuit breaker is OPEN"
    ELSE IF outcome \in {"job", "none"} THEN None
    ELSE outcome

\* a loop that does not recognise the breaker's exception
IsBreakerOpenErrorNever(e) == FALSE

\* if "Circuit breaker is OPEN" in str(e) (worker_old.py 197)
IsBreakerOpenError(e) == e = "Circuit breaker is OPEN"

\* one poll of the loop: redis_breaker.call(self.redis.brpop, ..) and the
\* handler its result or exception reaches (worker_old.py 176-210, 249-286).
\* The last handler is `except Exception`, for an exception that none of the
\* handlers before it takes; current_job_id is None here, so it finds no job
\* to fail.
GuardedPoll(w, outcome, ping_ok) ==
    /\ InPoll(w)
    /\ outcome = "job" => BrpopKey(queue) # None
    /\ outcome = "none" => BrpopKey(queue) = None
    /\ LET st == Admit(state, now, last_failure_time)
           e == PollError(st, outcome)
           errors == cerr[w] + 1
           failed_at == IF outcome = "timeout" THEN now + socket_timeout ELSE now
           d == CASE e = None /\ outcome = "job" -> 0
                  [] e = None /\ outcome = "none" -> brpop_timeout
                  [] e # None /\ IsBreakerOpenError(e) -> reject_sleep
                  [] e = "timeout" -> socket_timeout
                  [] e = "connection" ->
                        IF errors > reconnect_patience
                        THEN reconnect_sleep_long ELSE reconnect_sleep
                  [] OTHER -> IF CeilingExceeded(errors) THEN 0 ELSE error_sleep
       IN /\ now + d <= MaxTime
          /\ now' = now + d
          /\ IF st = "rejected"
             THEN /\ last_call' = "rejected"
                  /\ UNCHANGED <<state, failure_count, last_failure_time,
                                 streak, fails, recovered>>
             ELSE IF e = None
             THEN /\ failure_count' = OnSuccessCount(failure_count)
                  /\ state' = OnSuccessState(st)
                  /\ last_failure_time' = last_failure_time
                  /\ streak' = 0
                  /\ fails' = fails
                  /\ recovered' = (recovered \/ st = "half_open")
                  /\ last_call' = IF st = "half_open" THEN "trial_ok" ELSE "ok"
             ELSE /\ failure_count' = OnFailureCount(failure_count)
                  /\ last_failure_time' = OnFailureTime(last_failure_time, failed_at)
                  /\ recovered' = recovered
                  /\ state' = OnFailureState(st, OnFailureCount(failure_count))
                  /\ streak' = streak + 1
                  /\ fails' = IF state' = "open" THEN 0
                              ELSE Inc(fails, failure_threshold)
                  /\ last_call' = IF st = "half_open" THEN "trial_failed"
                                  ELSE "failed"
          /\ IF e = None /\ outcome = "job"
             THEN LET k == BrpopKey(queue) IN
                  /\ cur' = [cur EXCEPT ![w] = RpopValue(queue[k])]
                  /\ queue' = [queue EXCEPT ![k] = RpopRest(@)]
                  /\ pc' = [pc EXCEPT ![w] = "mark"]
                  /\ cerr' = [cerr EXCEPT ![w] = 0]
                  /\ unexp' = [unexp EXCEPT ![w] = 0]
                  /\ storeerr' = [storeerr EXCEPT ![w] = FALSE]
             ELSE /\ UNCHANGED <<cur, queue, storeerr>>
                  /\ CASE e = None \/ e = "timeout" ->
                            /\ pc' = [pc EXCEPT ![w] = "idle"]
                            /\ UNCHANGED <<cerr, unexp>>
                       [] e # None /\ IsBreakerOpenError(e) ->
                            /\ pc' = [pc EXCEPT ![w] = "idle"]
                            /\ UNCHANGED <<cerr, unexp>>
                       [] e = "connection" ->
                            /\ pc' = [pc EXCEPT ![w] = "idle"]
                            /\ cerr' = [cerr EXCEPT ![w] =
                                          IF ping_ok THEN 0 ELSE errors]
                            /\ unexp' = [unexp EXCEPT ![w] = 0]
                       [] OTHER ->
                            /\ pc' = [pc EXCEPT ![w] =
                                        IF CeilingExceeded(errors)
                                        THEN "stopped" ELSE "idle"]
                            /\ cerr' = [cerr EXCEPT ![w] = errors]
                            /\ unexp' = [unexp EXCEPT ![w] = @ + 1]
    /\ UNCHANGED <<rec, jtype, rcnt, api, nsub, enqueued, dispatched,
                   returned, touched, fresh, arrivals>>
    /\ UNCHANGED <<running, reported, sigpc, hbvars>>

NextGuarded ==
    \/ Submit
    \/ \E w \in Workers, outcome \in PollOutcomes, ping_ok \in BOOLEAN :
            GuardedPoll(w, outcome, ping_ok)
    \/ \E w \in Workers : IterationStep(w)

\* one worker, and one job submitted while the breaker is watched
InitGuarded ==
    /\ InitStore /\ InitJobs /\ InitBreaker /\ InitHeartbeat
    /\ InitLoop(OpsWorkers)
    /\ arrivals = "once"

SpecGuarded == InitGuarded /\ [][NextGuarded]_vars

\* ------------------------------- the iteration of worker_old.py after its claim
\* _process_job returns (worker_old.py 223, 313): current_job_id stays set
\* until line 247
LegacyProcessorReturns(w, success) ==
    /\ pc[w] = "proc"
    /\ returned' = [returned EXCEPT ![cur[w]] = TRUE]
    /\ pc' = [pc EXCEPT ![w] = IF success THEN "ret_true" ELSE "ret_false"]
    /\ jtype' = [jtype EXCEPT ![w] = None]
    /\ UNCHANGED <<rec, queue, cur, rcnt, api, nsub, enqueued, dispatched,
                   touched, fresh>>
    /\ UNCHANGED <<brkvars, hbvars, arrivals, opsvars>>

\* where the worker goes when _handle_job_failure returns: called by
\* _process_job, False is returned to the loop (worker_old.py 311-313, 223);
\* called by the loop's handler, the loop tests the ceiling and starts the
\* next iteration (worker_old.py 279-286)
AfterFailureHandling(w) ==
    IF storeerr[w]
    THEN IF CeilingExceeded(cerr[w]) THEN "stopped" ELSE "idle"
    ELSE "ret_false"

\* LPUSH queue:<job_type> job_id (worker_old.py 382)
LegacyHfPush(w) ==
    /\ pc[w] = "hf_push"
    /\ queue' = Requeue(queue, jtype[w], cur[w])
    /\ pc' = [pc EXCEPT ![w] = AfterFailureHandling(w)]
    /\ jtype' = [jtype EXCEPT ![w] = None]
    /\ rcnt' = [rcnt EXCEPT ![w] = 0]
    /\ UNCHANGED <<rec, cur, api, nsub, enqueued, dispatched,
                   returned, touched, fresh>>
    /\ UNCHANGED <<brkvars, hbvars, arrivals, opsvars>>

\* LPUSH queue:dlq job_id (worker_old.py 395)
LegacyHfDlq(w) ==
    /\ pc[w] = "hf_dlq"
    /\ queue' = [queue EXCEPT !["dlq"] = Lpush(@, cur[w])]
    /\ pc' = [pc EXCEPT ![w] = AfterFailureHandling(w)]
    /\ jtype' = [jtype EXCEPT ![w] = None]
    /\ rcnt' = [rcnt EXCEPT ![w] = 0]
    /\ UNCHANGED <<rec, cur, api, nsub, enqueued, dispatched,
                   returned, touched, fresh>>
    /\ UNCHANGED <<brkvars, hbvars, arrivals, opsvars>>

\* where _process_job has returned and the loop reads the record again
ReturnSites == {"ret_true", "ret_false"}

\* job_info = self.redis.hgetall(..) answers: on success the loop goes on to
\* write 'completed', otherwise current_job_id = None
\* (worker_old.py 227-231, 244-247)
ReadType(w) ==
    /\ pc[w] \in ReturnSites
    /\ IF pc[w] = "ret_true"
       THEN /\ pc' = [pc EXCEPT ![w] = "complete"]
            /\ cur' = cur
       ELSE /\ pc' = [pc EXCEPT ![w] = "idle"]
            /\ cur' = [cur EXCEPT ![w] = None]
    /\ UNCHANGED <<rec, queue, jtype, rcnt, api, nsub, enqueued, dispatched,
                   returned, touched, fresh>>
    /\ UNCHANGED <<brkvars, hbvars, arrivals, opsvars>>

\* `if self.current_job_id:` (worker_old.py 278)
HandlesFailure(job_id, site) == job_id # None

\* job_info = self.redis.hgetall(..) raises an error that is neither a
\* ConnectionError nor a TimeoutError: `except Exception` counts it and
\* calls _handle_job_failure(self.current_job_id, ..)
\* (worker_old.py 227, 270-279)
ReadTypeRaises(w) ==
    /\ pc[w] \in ReturnSites
    /\ ~storeerr[w]
    /\ storeerr' = [storeerr EXCEPT ![w] = TRUE]
    /\ cerr' = [cerr EXCEPT ![w] = @ + 1]
    /\ unexp' = [unexp EXCEPT ![w] = @ + 1]
    /\ pc' = [pc EXCEPT ![w] =
                IF HandlesFailure(cur[w], pc[w]) THEN "hf_read"
                ELSE IF CeilingExceeded(cerr[w] + 1) THEN "stopped"
                ELSE "idle"]
    /\ UNCHANGED <<rec, queue, cur, jtype, rcnt, api, nsub, enqueued,
                   dispatched, returned, touched, fresh>>
    /\ UNCHANGED <<brkvars, hbvars, arrivals, running, reported, sigpc>>

\* one step of the iteration; _handle_job_failure of worker_old.py reads the
\* type before it increments (worker_old.py 367-369) and is otherwise the
\* one of worker.py
LegacyStep(w) ==
    \/ Claim(w)
    \/ MarkRunning(w)
    \/ LoadJob(w)
    \/ \E success \in BOOLEAN : LegacyProcessorReturns(w, success)
    \/ ProcessorRaises(w)
    \/ ReadType(w)
    \/ ReadTypeRaises(w)
    \/ Complete(w)
    \/ HfRead(w)
    \/ HfIncr(w)
    \/ HfStatus(w)
    \/ HfType(w)
    \/ LegacyHfPush(w)
    \/ HfFailed(w)
    \/ LegacyHfDlq(w)

NextLegacy ==
    \/ Submit
    \/ \E w \in Workers : LegacyStep(w)

\* two workers, and one job submitted once
InitLegacy ==
    /\ InitStore /\ InitJobs /\ InitBreaker /\ InitHeartbeat
    /\ InitLoop(Workers)
    /\ arrivals = "once"

SpecLegacy == InitLegacy /\ [][NextLegacy]_vars

\* ------------------------------------------------------------ vocabulary
\* occurrences of an id in the type queues, and in all queues
InTypeQueues(j) == Count(queue["migration"], j) + Count(queue["backtest"], j)
InQueues(j) == InTypeQueues(j) + Count(queue["dlq"], j)

\* workers that hold the id: popped it and have not finished the iteration
Holders(j) == {w \in Workers : cur[w] = j}

\* workers past the 'running' write of the id (executing it or handling its failure)
Executing(j) == {w \in Holders(j) : pc[w] # "mark"}

\* the job is neither waiting in a type queue nor in a worker's hands
AtRest(j) == InTypeQueues(j) = 0 /\ Holders(j) = {}

\* ------------------------------------------------------------------- C1
\* C1: two claim() calls of different workers never return the same job_id:
\* no two workers hold the same popped id at the same time.
ClaimsReturnDistinctIds ==
    \A w1, w2 \in Workers :
        (w1 # w2 /\ cur[w1] # None) => cur[w1] # cur[w2]

\* ------------------------------------------------------------------- C2
\* C2: at most one worker executes a job id at any instant, and while a worker
\* executes a job whose record says running, the record's worker_id is that worker.
SingleRunningOwner ==
    \A j \in JobIds :
        /\ Cardinality(Executing(j)) <= 1
        /\ \A w \in Executing(j) :
              rec[j].status = "running" => rec[j].worker_id = w

\* ------------------------------------------------------------------- C3
\* C3: a job id is in at most one queue (type queues and dead-letter queue
\* together), at most once, and in no queue while a worker is processing it.
IdInAtMostOneQueue ==
    \A j \in JobIds :
        /\ InQueues(j) <= 1
        /\ Holders(j) # {} => InQueues(j) = 0

\* ------------------------------------------------------------------- C4
\* C4: when the Processor of a job with retry_count = k < max_retries raises,
\* the failure handling ends with the id pushed once at the tail (index 1 of
\* the Redis list, served last) of its own type queue and with retry_count
\* raised; for a job whose id was submitted once, retry_count is then exactly
\* k+1, status is retry_scheduled and the id occurs in that queue exactly once.
RetryReenqueuesAtTail ==
    [][\A w \in Workers :
          HfPush(w) =>
              LET j == cur[w]
                  t == TypeOfId(j)
              IN /\ rcnt[w] < max_retries
                 /\ queue'[t] = <<j>> \o queue[t]
                 /\ \A q \in QueueNames \ {t} : queue'[q] = queue[q]
                 /\ rec'[j].retry_count >= rcnt[w] + 1
                 /\ nsub[j] = 1 =>
                       /\ rec'[j].retry_count = rcnt[w] + 1
                       /\ rec'[j].status = "retry_scheduled"
                       /\ Count(queue'[t], j) = 1]_vars

\* a retried job waits behind another job of its type: one failure, one entry
RetryReenqueuedWitness ==
    \E j \in JobIds :
        /\ nsub[j] = 1
        /\ rec[j].status = "retry_scheduled"
        /\ rec[j].retry_count = 1
        /\ Holders(j) = {}
        /\ Len(queue[TypeOfId(j)]) = 2
        /\ queue[TypeOfId(j)][1] = j

\* ------------------------------------------------------------------- C5
\* C5 as written: a job (an id submitted once) whose failures have driven
\* retry_count to max_retries ends (out of the type queues, out of every
\* worker's hands, no longer marked running) with status = failed and one
\* dead-letter entry.
ExhaustedEndsDeadLettered ==
    \A j \in JobIds :
        (nsub[j] = 1 /\ rec[j].retry_count = max_retries /\ AtRest(j)) =>
            (rec[j].status # "running" =>
                (rec[j].status = "failed" /\ Count(queue["dlq"], j) = 1))

\* C5 amended: the dead-letter branch is taken only by a failure that finds
\* retry_count already at max_retries; a job (an id submitted once) that fails
\* so ends with status = failed and exactly one dead-letter entry, at rest.
FailureAtMaxRetriesDeadLetters ==
    \A j \in JobIds :
        /\ \A w \in Holders(j) :
              pc[w] \in {"hf_failed", "hf_dlq"} => rcnt[w] >= max_retries
        /\ nsub[j] = 1 =>
              /\ \A w \in Holders(j) :
                    pc[w] = "hf_dlq" =>
                        /\ rec[j].status = "failed"
                        /\ rec[j].retry_count = max_retries
                        /\ InQueues(j) = 0
              /\ Count(queue["dlq"], j) >= 1 =>
                    /\ Count(queue["dlq"], j) = 1
                    /\ rec[j].status = "failed"
                    /\ rec[j].retry_count = max_retries
                    /\ AtRest(j)

\* a job submitted once lies in the dead-letter queue
DeadLetteredWitness ==
    \E j \in JobIds :
        /\ nsub[j] = 1
        /\ Count(queue["dlq"], j) = 1
        /\ rec[j].status = "failed"

\* ------------------------------------------------------------------- C6
\* C6: a job (one submission) whose Processor has raised on every attempt is
\* dispatched at most max_retries+1 times; when the last of these attempts is
\* over it lies in the dead-letter queue, once, with retry_count = max_retries
\* and status = failed, and a dead-lettered job is not dispatched again.
AlwaysRaisingEndsAfterMaxRetriesPlusOne ==
    \A j \in JobIds :
        (nsub[j] = 1 /\ ~returned[j]) =>
            /\ dispatched[j] <= max_retries + 1
            /\ (dispatched[j] = max_retries + 1 /\ Holders(j) = {}) =>
                  /\ Count(queue["dlq"], j) = 1
                  /\ InTypeQueues(j) = 0
                  /\ rec[j].retry_count = max_retries
                  /\ rec[j].status = "failed"
            /\ Count(queue["dlq"], j) >= 1 =>
                  /\ dispatched[j] = max_retries + 1
                  /\ Holders(j) = {}

\* the scenario's end: 4 dispatches, retry_count 3, failed, dead-lettered
FourDispatchesWitness ==
    \E j \in JobIds :
        /\ nsub[j] = 1 /\ ~returned[j]
        /\ dispatched[j] = 4
        /\ rec[j].retry_count = 3
        /\ rec[j].status = "failed"
        /\ Count(queue["dlq"], j) = 1

\* ------------------------------------------------------------------- C7
\* C7 as written: every submitted (enqueued) job id is eventually handed to
\* its Processor at least once.
EverySubmittedJobIsDispatched ==
    \A j \in JobIds : enqueued[j] ~> (dispatched[j] >= 1)

\* a migration submission completes
MigrationArrives == SubmitLpush /\ TypeOfId(api.job) = "migration"

\* C7 amended: every submitted migration id is eventually handed to its
\* Processor at least once; a submitted backtest id is too, provided that
\* from some point on no migration submission arrives.
SubmittedJobIsDispatchedUnlessStarved ==
    /\ \A j \in JobIds :
          TypeOfId(j) = "migration" => (enqueued[j] ~> (dispatched[j] >= 1))
    /\ (<>[][~MigrationArrives]_vars) =>
          \A j \in JobIds : enqueued[j] ~> (dispatched[j] >= 1)

\* both a backtest id and a migration id were dispatched, and the migration id
\* has arrived again after a failed attempt
BacktestDispatchedWitness ==
    /\ arrivals = "unbounded"
    /\ enqueued["b1"] /\ dispatched["b1"] >= 1
    /\ enqueued["m1"] /\ dispatched["m1"] >= 1
    /\ rec["m1"].status = "queued"
    /\ rec["m1"].retry_count = 1

\* ------------------------------------------------------------------- C8
\* C8 as written: at the moment submit returns, a status query for the id
\* finds the record with status = queued, progress = 0 and retry_count = 0.
ReturnedIdIsQueued ==
    [][SubmitReturn =>
          LET r == GetJobStatus(api.job)
          IN /\ r # NoRec
             /\ r.status = "queued"
             /\ r.progress = 0
             /\ ReadRetryCount(r) = 0]_vars

\* C8 amended: at the moment submit returns, a status query for the id finds
\* the record; unless a worker has written to the record since submit wrote
\* it, the record has status = queued and progress = 0, and retry_count = 0
\* (no such field) when the id had no record before this submission.
ReturnedIdIsResolvable ==
    [][SubmitReturn =>
          LET r == GetJobStatus(api.job)
          IN /\ r # NoRec
             /\ r.type = TypeOfId(api.job)
             /\ ~touched =>
                   /\ r.status = "queued"
                   /\ r.progress = 0
                   /\ fresh => ReadRetryCount(r) = 0]_vars

\* submit is about to return a fresh id no worker has touched, while a worker
\* is busy with another job
ReturnWitness ==
    /\ api.pc = "pushed"
    /\ ~touched /\ fresh
    /\ rec[api.job].status = "queued"
    /\ \E w \in Workers : pc[w] # "idle" /\ cur[w] # api.job

\* ------------------------------------------------------------------- C9
\* C9: submission is atomic: whenever no submission is in progress, a job
\* record implies that its id was enqueued, and a queued id has its record.
SubmitIsAtomic ==
    api.pc = "idle" =>
        \A j \in JobIds :
            /\ rec[j] # NoRec => enqueued[j]
            /\ InQueues(j) > 0 => rec[j] # NoRec

\* ------------------------------------------------------------------ C10
\* C10: after failure_threshold consecutive failures of the wrapped call the
\* breaker is open; a call made while it is open is rejected when less than
\* timeout has elapsed since the last failure; a call made after more than
\* timeout is let through as the half_open trial and leaves the breaker closed
\* if it succeeds and open if it fails.
BreakerOpensRejectsAndTries ==
    /\ [](streak >= failure_threshold => state = "open")
    /\ [][\A success \in BOOLEAN, d \in 0..MaxCallDur :
            (BreakerCall(success, d) /\ state = "open") =>
                LET elapsed == now - last_failure_time
                IN /\ elapsed < timeout =>
                        /\ last_call' = "rejected"
                        /\ state' = "open"
                        /\ streak' = streak
                   /\ elapsed > timeout =>
                        /\ last_call' = (IF success THEN "trial_ok" ELSE "trial_failed")
                        /\ state' = (IF success THEN "closed" ELSE "open")]_vars

\* the breaker opened after five failures in a row, rejected a call, and a
\* later trial call closed it again
TrialClosedWitness ==
    /\ last_call = "trial_ok"
    /\ state = "closed"
    /\ failure_count = 0
    /\ last_failure_time # Absent

\* ------------------------------------------------------------------ C11
\* C11: a call made while the breaker is open and less than timeout has
\* elapsed since the last failure is rejected without the wrapped operation
\* being invoked (no time passes in it, no outcome is counted), and state,
\* failure_count and last_failure_time are left as they were.
RejectionChangesNothing ==
    [][\A success \in BOOLEAN, d \in 0..MaxCallDur :
          (/\ BreakerCall(success, d)
           /\ state = "open"
           /\ now - last_failure_time < timeout) =>
              /\ last_call' = "rejected"
              /\ state' = state
              /\ failure_count' = failure_count
              /\ last_failure_time' = last_failure_time
              /\ now' = now
              /\ streak' = streak]_vars

\* a call was rejected some seconds after the failure that opened the breaker
RejectedWitness ==
    /\ last_call = "rejected"
    /\ state = "open"
    /\ failure_count = failure_threshold
    /\ now - last_failure_time > 0
    /\ now - last_failure_time < timeout

\* ------------------------------------------------------------------ C12
\* C12: every raised error of an admitted call adds one to failure_count and
\* every normal return sets it to 0, so failure_count is the number of
\* failures since the last success; the breaker is open only after at least
\* failure_threshold failures with no success in between, and it leaves closed
\* exactly with the failure that makes them failure_threshold.
FailuresCountSuccessesReset ==
    /\ [](failure_count = streak)
    /\ [](state = "open" => streak >= failure_threshold)
    /\ [][\A success \in BOOLEAN, d \in 0..MaxCallDur :
            (BreakerCall(success, d) /\ last_call' # "rejected") =>
                failure_count' = (IF success THEN 0 ELSE failure_count + 1)]_vars
    /\ [][(state = "closed" /\ state' # "closed") =>
            (state' = "open" /\ streak' = failure_threshold)]_vars

\* failure_threshold failures with successes in between: the breaker has not
\* left closed since it was last open
StaysClosedWitness ==
    /\ state = "closed"
    /\ fails = failure_threshold
    /\ failure_count = failure_threshold - 1

\* ------------------------------------------------------------------ C13
\* C13: each type queue is FIFO.  A step either leaves a type queue as it is,
\* or puts one id behind every id that is waiting in it (a submission, a
\* retry), or hands the id that has waited longest to the worker that claims;
\* the ids that stay keep their order.  So ids are claimed in the order they
\* were pushed, and a retried id is claimed after all that waited when it was
\* re-enqueued.
TypeQueuesAreFifo ==
    [][/\ \A t \in TypeQueues :
            \/ queue'[t] = queue[t]
            \/ \E j \in JobIds : queue'[t] = <<j>> \o queue[t]
            \/ /\ queue[t] # <<>>
               /\ queue'[t] = SubSeq(queue[t], 1, Len(queue[t]) - 1)
               /\ \E w \in Workers :
                     /\ pc[w] # "mark" /\ pc'[w] = "mark"
                     /\ cur'[w] = queue[t][Len(queue[t])]
       /\ \A w \in Workers :
            HfPush(w) =>
                LET t == TypeOfId(cur[w]) IN
                    /\ Len(queue'[t]) = Len(queue[t]) + 1
                    /\ queue'[t][1] = cur[w]
                    /\ \A i \in 1..Len(queue[t]) : queue'[t][i + 1] = queue[t][i]
       /\ SubmitLpush =>
            LET t == TypeOfId(api.job) IN
                /\ Len(queue'[t]) = Len(queue[t]) + 1
                /\ queue'[t][1] = api.job
                /\ \A i \in 1..Len(queue[t]) : queue'[t][i + 1] = queue[t][i]]_vars

\* a worker has claimed the id that waited ahead of a retried id of its type,
\* and the retried id still waits
ClaimedAheadOfRetryWitness ==
    \E w \in Workers, j \in JobIds :
        /\ pc[w] = "mark"
        /\ cur[w] # j
        /\ TypeOfId(cur[w]) = TypeOfId(j)
        /\ nsub[j] = 1 /\ nsub[cur[w]] = 1
        /\ rec[j].status = "retry_scheduled"
        /\ queue[TypeOfId(j)] = <<j>>

\* ------------------------------------------------------------------ C14
\* C14: when the Processor of a claimed job returns success, whatever
\* percentages it has reported, the worker goes on to write status = completed
\* and progress = 100; the record of a job (an id submitted once) that is
\* completed is not written again, so it ends completed with progress 100.
SuccessEndsCompletedAtHundred ==
    [][/\ \A w \in Workers :
            /\ ProcessorReturns(w, TRUE) => pc'[w] = "complete"
            /\ Complete(w) =>
                  /\ rec'[cur[w]].status = "completed"
                  /\ rec'[cur[w]].progress = 100
       /\ \A j \in JobIds :
            (nsub'[j] = 1 /\ rec[j].status = "completed") =>
                /\ rec'[j] = rec[j]
                /\ rec[j].progress = 100]_vars

\* a job whose Processor last reported 30 and returned success is completed
SuccessAfterProgressWitness ==
    \E j \in JobIds :
        /\ nsub[j] = 1
        /\ reported[j] = 30
        /\ rec[j].status = "completed"
        /\ rec[j].progress = 100
        /\ AtRest(j)

\* ------------------------------------------------------------------ C15
\* C15: when the dispatch of a claimed job finds a type that names no
\* Processor, the job is not retried (retry_count unchanged, no type queue
\* changed) and its id is pushed onto the dead-letter queue.
UnresolvableTypeIsDeadLettered ==
    [][\A w \in Workers :
          (LoadJob(w) /\ rec[cur[w]].type \notin JobTypes) =>
              /\ rec'[cur[w]].retry_count = rec[cur[w]].retry_count
              /\ \A t \in TypeQueues : queue'[t] = queue[t]
              /\ queue'["dlq"] = <<cur[w]>> \o queue["dlq"]]_vars

\* ------------------------------------------------------------------ C16
\* C16: once the dispatch attempt of a job (an id submitted once) is over, the
\* record does not say running: a Processor that returned false has made it
\* failed.
FalseResultSurfacesFailed ==
    \A j \in JobIds :
        (nsub[j] = 1 /\ dispatched[j] >= 1 /\ Holders(j) = {}) =>
            rec[j].status # "running"

\* ------------------------------------------------------------------ C17
\* C17: in an iteration in which a store call has raised while the worker
\* handled its claimed job, no step of the worker increments the job's
\* retry_count, marks it retry_scheduled or failed, or dead-letters it.
StoreErrorNeverFailsJob ==
    [][\A w \in Workers :
          (storeerr[w] /\ cur[w] # None /\ pc'[w] # pc[w]) =>
              LET j == cur[w] IN
                  /\ rec'[j].retry_count = rec[j].retry_count
                  /\ rec'[j].status \in {"retry_scheduled", "failed"} =>
                        rec'[j].status = rec[j].status
                  /\ queue'["dlq"] = queue["dlq"]]_vars

\* ------------------------------------------------------------------ C18
\* C18: a worker's loop ends when and only when its unexpected loop errors in
\* consecutive iterations have become more than the ceiling, or shutdown was
\* requested; the failure of a Processor and its handling leave the error
\* counts as they are and never end the loop.
TerminatesOnlyAboveCeiling ==
    [][\A w \in Workers :
          /\ (pc[w] # "stopped" /\ pc'[w] = "stopped") =>
                (unexp'[w] > error_ceiling \/ ~running[w])
          /\ (unexp'[w] # unexp[w] /\ unexp'[w] > error_ceiling) =>
                pc'[w] = "stopped"
          /\ (pc[w] \in {"proc", "hf_read", "hf_incr", "hf_status", "hf_type",
                         "hf_push", "hf_failed", "hf_dlq"} /\ pc'[w] # pc[w]) =>
                /\ cerr'[w] = cerr[w]
                /\ unexp'[w] = unexp[w]
                /\ pc'[w] # "stopped"]_vars

\* ------------------------------------------------------------------ C19
\* C19: a worker whose shutdown was requested starts no new iteration (from
\* the loop test it only leaves the loop); the signal changes nothing of the
\* iteration in progress, and the loop is left only at the loop test, with no
\* job in the worker's hands, so the job in flight got the same treatment as
\* without the signal; and the loop is eventually left.
ShutdownIsGraceful ==
    /\ [][\A w \in Workers :
            /\ (~running[w] /\ pc[w] = "idle") => pc'[w] \in {"idle", "stopped"}
            /\ (running[w] /\ ~running'[w]) =>
                  /\ cur'[w] = cur[w] /\ rec' = rec /\ queue' = queue
                  /\ pc[w] # "idle" => pc'[w] = pc[w]
            /\ (pc[w] # "stopped" /\ pc'[w] = "stopped") =>
                  (pc[w] = "idle" /\ cur[w] = None /\ ~running[w])]_vars
    /\ \A w \in Workers : (~running[w]) ~> (pc[w] = "stopped")

\* the signal came during a Processor call; the job was completed by that
\* worker and the worker has left its loop
StoppedAfterCompletingWitness ==
    \E w \in Workers, j \in JobIds :
        /\ pc[w] = "stopped"
        /\ sigpc[w] = "proc"
        /\ rec[j].status = "completed"
        /\ rec[j].worker_id = w

\* ------------------------------------------------------------------ C20
\* C20: when the record write of _update_job_status raises, the worker is next
\* where it is after a write that succeeded; consecutive_errors is unchanged,
\* the loop is not left, and no record and no queue is written (the job is not
\* failed, retried or dead-lettered by it).
UpdateFailureIsSwallowed ==
    [][\A w \in Workers :
          UpdateStatusFails(w) =>
              /\ pc'[w] = AfterUpdate(pc[w])
              /\ pc'[w] # "stopped"
              /\ cerr' = cerr /\ unexp' = unexp
              /\ rec' = rec
              /\ queue' = queue]_vars

\* the write of running was lost and the job was dispatched all the same
DispatchedAfterLostWriteWitness ==
    \E w \in Workers :
        /\ pc[w] = "proc"
        /\ nsub[cur[w]] = 1
        /\ rec[cur[w]].status = "queued"
        /\ dispatched[cur[w]] >= 1

\* ------------------------------------------------------------------ C21
\* C21: _update_job_status is idempotent on the record: whatever record it
\* finds and whatever worker, status and progress it is called with, a second
\* call with the same arguments leaves the record the first call left.
UpdateIsIdempotent ==
    \A j \in JobIds, w \in Workers,
       status \in {"queued", "running", "completed", "failed", "retry_scheduled"},
       progress \in {0} \cup ProgressValues :
        LET once == UpdateJobStatus(rec[j], w, status, progress)
        IN UpdateJobStatus(once, w, status, progress) = once

\* the worker marks running, with the same arguments, the record it marked
\* running in its previous iteration and that nothing has written since
MarkedRunningTwiceWitness ==
    \E w \in Workers, j \in JobIds :
        /\ pc[w] = "load" /\ cur[w] = j
        /\ nsub[j] = 2 /\ dispatched[j] = 1 /\ returned[j]
        /\ InQueues(j) = 0
        /\ reported[j] = Absent
        /\ rec[j] = UpdateJobStatus(rec[j], w, "running", 0)

\* ------------------------------------------------------------------ C22
\* C22: a worker that popped an id with no job record discards it.  The claim
\* itself does not fault; when the load of _process_job finds no record of a
\* known type the iteration ends there: the worker is back at its loop test
\* with no job in its hands and still running, no error is counted, and no
\* retry_count, no status and no queue is written (the retry/dead-letter
\* policy is not applied).
MissingRecordIsDiscarded ==
    [][\A w \in Workers :
          /\ (Claim(w) /\ rec[cur'[w]] = NoRec) =>
                (pc'[w] = "mark" /\ cerr'[w] = 0 /\ unexp'[w] = 0)
          /\ (LoadJob(w) /\ rec[cur[w]].type = None) =>
                /\ pc'[w] = "idle" /\ cur'[w] = None
                /\ running'[w] = running[w]
                /\ cerr'[w] = cerr[w] /\ unexp'[w] = unexp[w]
                /\ rec' = rec
                /\ queue' = queue]_vars

\* the id of a deleted job was popped and discarded: it is in no queue and in
\* no worker's hands, it was never handed to a Processor, and the worker is
\* back at its loop test
MissingRecordDiscardedWitness ==
    \E w \in Workers, j \in JobIds :
        /\ pc[w] = "idle" /\ cur[w] = None /\ running[w]
        /\ nsub[j] = 1 /\ enqueued[j] /\ InQueues(j) = 0
        /\ dispatched[j] = 0
        /\ rec[j].type = None
        /\ rec[j].retry_count = Absent
        /\ rec[j].worker_id = w

\* ------------------------------------------------------------------ C23
\* C23: the retry_count of a job record never decreases: a step of the API
\* (submission, resubmission of the same id) or of a worker (claim, update,
\* retry, dead-letter) leaves it at least what it was, and a field that is set
\* stays set.
RetryCountNeverDecreases ==
    [][\A j \in JobIds :
          /\ ReadRetryCount(rec'[j]) >= ReadRetryCount(rec[j])
          /\ rec[j].retry_count # Absent => rec'[j].retry_count # Absent]_vars

\* the id of a job that has been retried was submitted again: the new
\* submission wrote status=queued over the record and left its retry_count
ResubmittedAfterRetryWitness ==
    \E j \in JobIds :
        /\ api.pc = "hset" /\ api.job = j
        /\ nsub[j] = 2
        /\ rec[j].status = "queued"
        /\ rec[j].retry_count >= 1

\* ------------------------------------------------------------------ C24
\* C24: a worker that is alive has an unexpired heartbeat: from its first
\* heartbeat on, as long as the worker is in its loop (waiting in BRPOP or in
\* the middle of a Processor call), its heartbeat key exists.
LiveWorkerHasHeartbeat ==
    \A w \in Workers :
        (pc[w] # "stopped" /\ hb_expiry[w] # Absent) => HeartbeatAlive(w)

\* ------------------------------------------------------------------ C25
\* C25: a poll the open breaker rejects only delays the loop: the worker
\* sleeps reject_sleep seconds and is back at its loop test, still running;
\* consecutive_errors is not incremented, no record and no queue is written
\* and the worker holds no job (no retry or dead-letter handling), and the
\* loop is not left, whatever number of rejections came before.
RejectionOnlyDelaysLoop ==
    [][\A w \in Workers, outcome \in PollOutcomes, ping_ok \in BOOLEAN :
          (/\ GuardedPoll(w, outcome, ping_ok)
           /\ Admit(state, now, last_failure_time) = "rejected") =>
              /\ pc'[w] = "idle"
              /\ running'[w] = running[w]
              /\ now' = now + reject_sleep
              /\ cerr' = cerr /\ unexp' = unexp
              /\ rec' = rec /\ queue' = queue /\ cur' = cur]_vars

\* the breaker has rejected the worker's polls for half a minute and more
\* while a job waits in its queue; the worker still counts the five errors
\* that opened the breaker and is at its loop test
RejectedWhileJobWaitsWitness ==
    \E w \in Workers, j \in JobIds :
        /\ last_call = "rejected"
        /\ state = "open"
        /\ now - last_failure_time >= 3 * reject_sleep
        /\ pc[w] = "idle" /\ running[w]
        /\ cerr[w] = failure_threshold
        /\ InTypeQueues(j) = 1
        /\ rec[j].status = "queued"

\* ------------------------------------------------------------------ C26
\* C26: the status of the record of an id that was submitted once changes
\* only along queued -> running, running -> completed, running -> failed,
\* running -> retry_scheduled and retry_scheduled -> queued (its creation
\* writes queued); and while the id waits in a type queue its status is
\* queued, also after a re-enqueue.
StatusFollowsEdges ==
    /\ [][\A j \in JobIds :
            nsub'[j] = 1 =>
                \/ rec'[j].status = rec[j].status
                \/ <<rec[j].status, rec'[j].status>> \in
                      {<<None, "queued">>,
                       <<"queued", "running">>,
                       <<"running", "completed">>,
                       <<"running", "failed">>,
                       <<"running", "retry_scheduled">>,
                       <<"retry_scheduled", "queued">>}]_vars
    /\ [](\A j \in JobIds :
            (nsub[j] = 1 /\ InTypeQueues(j) > 0) => rec[j].status = "queued")

\* ------------------------------------------------------------------ C27
\* C27: completed and dead-lettered failed are terminal: from a state in
\* which a record has status=completed, or status=failed with its id in the
\* dead-letter queue, no step changes the record's status, progress or
\* retry_count, and no step puts the id on a type queue.
TerminalStatesAreFinal ==
    [][\A j \in JobIds :
          (\/ rec[j].status = "completed"
           \/ (rec[j].status = "failed" /\ Count(queue["dlq"], j) > 0)) =>
              /\ rec'[j].status = rec[j].status
              /\ rec'[j].progress = rec[j].progress
              /\ rec'[j].retry_count = rec[j].retry_count
              /\ InTypeQueues(j)' <= InTypeQueues(j)]_vars

\* ------------------------------------------------------------------ C28
\* C28: when the trial call of an open breaker whose timeout has elapsed
\* fails, the breaker is open again and last_failure_time is the time of that
\* failure; and a call made while the breaker is open and less than timeout
\* has elapsed since last_failure_time is rejected and leaves both as they
\* are.  So after a failed trial calls are rejected for a full timeout counted
\* from the trial's failure.
FailedTrialReopens ==
    /\ [][\A success \in BOOLEAN, d \in 0..MaxCallDur :
            (/\ BreakerCall(success, d)
             /\ state = "open"
             /\ now - last_failure_time > timeout
             /\ ~success) =>
                /\ state' = "open"
                /\ now' = now + d
                /\ last_failure_time' = now']_vars
    /\ [][\A success \in BOOLEAN, d \in 0..MaxCallDur :
            (/\ BreakerCall(success, d)
             /\ state = "open"
             /\ now - last_failure_time < timeout) =>
                /\ last_call' = "rejected"
                /\ state' = "open"
                /\ last_failure_time' = last_failure_time]_vars

\* a trial call failed more than timeout after the failure that opened the
\* breaker, and a call made some seconds after the trial was rejected
RejectedAfterFailedTrialWitness ==
    /\ last_call = "rejected"
    /\ state = "open"
    /\ failure_count = failure_threshold + 1
    /\ last_failure_time > timeout
    /\ now - last_failure_time > 0
    /\ now - last_failure_time < timeout

\* ------------------------------------------------------------------ C29
\* C29: when the trial call of an open breaker whose timeout has elapsed
\* succeeds, the breaker is closed and failure_count is 0; a breaker that has
\* recovered this way is closed with fewer than failure_threshold failures
\* counted, and leaves closed only to open, with the failure that makes
\* failure_threshold consecutive ones.
SuccessfulTrialCloses ==
    /\ [][\A success \in BOOLEAN, d \in 0..MaxCallDur :
            (/\ BreakerCall(success, d)
             /\ state = "open"
             /\ now - last_failure_time > timeout
             /\ success) =>
                /\ state' = "closed"
                /\ failure_count' = 0
                /\ recovered']_vars
    /\ [][(recovered /\ state = "closed" /\ state' # "closed") =>
            /\ state' = "open"
            /\ streak' = failure_threshold
            /\ failure_count' = failure_threshold]_vars
    /\ []((recovered /\ state = "closed") => failure_count < failure_threshold)

\* the breaker recovered through a successful trial and, failure_threshold
\* consecutive failures later, is open again
ReopenedAfterRecoveryWitness ==
    /\ recovered
    /\ state = "open"
    /\ streak = failure_threshold
    /\ failure_count = failure_threshold
    /\ last_call = "failed"

\* ------------------------------------------------------------------ C30
\* C30 (as stated): a call to an open breaker is let through as the trial
\* when timeout seconds or more have elapsed since last_failure_time, and is
\* rejected when less has elapsed.
AdmitsFromTimeoutOn ==
    [][\A success \in BOOLEAN, d \in 0..MaxCallDur :
          (BreakerCall(success, d) /\ state = "open") =>
              LET elapsed == now - last_failure_time
              IN /\ elapsed >= timeout => last_call' \in {"trial_ok", "trial_failed"}
                 /\ elapsed < timeout => last_call' = "rejected"]_vars

\* C30 (amended): a call to an open breaker is let through as the trial
\* exactly when more than timeout seconds have elapsed since
\* last_failure_time; a call at timeout seconds or earlier is rejected and
\* leaves the breaker open.
AdmitsOnlyAfterTimeout ==
    [][\A success \in BOOLEAN, d \in 0..MaxCallDur :
          (BreakerCall(success, d) /\ state = "open") =>
              LET elapsed == now - last_failure_time
              IN /\ elapsed > timeout => last_call' \in {"trial_ok", "trial_failed"}
                 /\ elapsed <= timeout =>
                        /\ last_call' = "rejected"
                        /\ state' = "open"]_vars

\* a call made exactly timeout seconds after the last failure was rejected
RejectedAtTimeoutWitness ==
    /\ last_call = "rejected"
    /\ state = "open"
    /\ now - last_failure_time = timeout

\* ------------------------------------------------------------------ C31
\* C31: no increment of retry_count is lost.  Every step in which a worker's
\* failure handling takes the retry branch raises the record's retry_count by
\* exactly one from what the record holds at that moment, whatever the worker
\* has read before and whatever other workers have done to the same id since;
\* and no other step changes the field.  So n retries end exactly n higher.
IncrementsAreNeverLost ==
    /\ [][\A w \in Workers :
            HfIncr(w) =>
                rec'[cur[w]].retry_count = ReadRetryCount(rec[cur[w]]) + 1]_vars
    /\ [][\A j \in JobIds :
            rec'[j].retry_count # rec[j].retry_count =>
                \E w \in Workers : cur[w] = j /\ HfIncr(w)]_vars

\* two workers handle the failure of the same id at once: both have read
\* retry_count 0, both have incremented, and the record holds 2
InterleavedIncrementsWitness ==
    \E w1 \in Workers, w2 \in Workers :
        /\ w1 # w2
        /\ cur[w1] # None /\ cur[w1] = cur[w2]
        /\ pc[w1] = "hf_status" /\ pc[w2] = "hf_status"
        /\ rcnt[w1] = 0 /\ rcnt[w2] = 0
        /\ rec[cur[w1]].retry_count = 2

\* ------------------------------------------------------------------ C32
\* C32: in every reachable state the retry_count of a job is at most
\* max_retries and the job has been handed to a Processor at most
\* max_retries + 1 times, also when two workers handle the same id.
RetriesAreBounded ==
    \A j \in JobIds :
        /\ ReadRetryCount(rec[j]) <= max_retries
        /\ dispatched[j] <= max_retries + 1

\* ------------------------------------------------------------------ C33
\* C33: failure handling never loses a job: once the worker that handled the
\* failure has let go of the id, a record with status=retry_scheduled has its
\* id in a type queue or in the hands of the worker that claimed it again,
\* and a record with status=failed has its id in the dead-letter queue.
FailureHandlingKeepsJob ==
    \A j \in JobIds :
        Holders(j) = {} =>
            /\ rec[j].status = "retry_scheduled" => InTypeQueues(j) > 0
            /\ rec[j].status = "failed" => Count(queue["dlq"], j) > 0

\* ------------------------------------------------------------------ C34
\* C34: the retry / dead-letter policy is applied at most once per dispatch
\* attempt.  _handle_job_failure starts only for an attempt that is still
\* open (the record is being loaded or the Processor is running), never for
\* one whose _process_job has returned.
PolicyOncePerAttempt ==
    [][\A w \in Workers :
        (pc[w] # "hf_read" /\ pc'[w] = "hf_read") =>
            pc[w] \in {"load", "proc"}]_vars

\* ------------------------------------------------------------------ C35
\* C35: the failure handling writes the record before it pushes the id and
\* never after, so what a later claimer has written stays: while a worker
\* loads or runs a job, the record says status = running and carries that
\* worker's id.
ClaimerKeepsRecord ==
    \A w \in Workers :
        pc[w] \in {"load", "proc"} =>
            /\ rec[cur[w]].status = "running"
            /\ rec[cur[w]].worker_id = w

\* ------------------------------------------------------------------ C36
\* C36: claiming an id that has no job record leaves the job records as they
\* are: the status write of the iteration that claimed it creates no record
\* for the id.
ClaimOfMissingCreatesNothing ==
    [][\A w \in Workers :
        (pc[w] = "mark" /\ pc'[w] # "mark" /\ rec[cur[w]] = NoRec) =>
            rec'[cur[w]] = NoRec]_vars

\* ------------------------------------------------------------------ C37
\* C37: between two calls the breaker is closed or open, never half_open; an
\* open breaker has counted at least failure_threshold failures and has the
\* time of the last one; a closed breaker has counted fewer.
BreakerStateInvariant ==
    /\ state \in {"closed", "open"}
    /\ state = "open" =>
          (failure_count >= failure_threshold /\ last_failure_time # Absent)
    /\ state = "closed" => failure_count < failure_threshold

\* closed again by a successful trial, and one failure short of opening
ClosedBelowThresholdWitness ==
    /\ state = "closed"
    /\ recovered
    /\ failure_count = failure_threshold - 1
    /\ last_failure_time # Absent

\* ------------------------------------------------------------------ C38
\* C38: a claim that ends because no job is available, by BRPOP's own
\* timeout or by the timeout of the socket it waits on, is no error: the
\* breaker that wraps it counts no failure and stays closed, the worker's
\* consecutive_errors stays as it is and the worker is back at its loop test.
EmptyPollIsNoError ==
    [][\A w \in Workers, outcome \in {"none", "timeout"}, ping_ok \in BOOLEAN :
          (/\ GuardedPoll(w, outcome, ping_ok)
           /\ BrpopKey(queue) = None
           /\ Admit(state, now, last_failure_time) # "rejected") =>
              /\ failure_count' = 0
              /\ state' = "closed"
              /\ cerr' = cerr
              /\ pc'[w] = "idle"
              /\ running'[w] = running[w]]_vars

\* ------------------------------------------------------------------ C39
\* C39: the claim over both queues is ordered by priority: while
\* queue:migration is non-empty a claim takes its oldest id and leaves
\* queue:backtest alone; only when queue:migration is empty it takes the
\* oldest id of queue:backtest.
ClaimIsPriorityOrdered ==
    [][\A w \in Workers :
          Claim(w) =>
              LET m == queue["migration"]
                  b == queue["backtest"]
              IN IF m # <<>>
                 THEN /\ cur'[w] = m[Len(m)]
                      /\ queue'["migration"] = SubSeq(m, 1, Len(m) - 1)
                      /\ queue'["backtest"] = b
                 ELSE /\ cur'[w] = b[Len(b)]
                      /\ queue'["backtest"] = SubSeq(b, 1, Len(b) - 1)
                      /\ queue'["migration"] = m]_vars

\* a backtest id waits, undispatched, while a migration id has been through a
\* failed attempt and was claimed a second time
BacktestWaitsBehindRetryWitness ==
    \E w \in Workers :
        /\ Count(queue["backtest"], "b1") = 1
        /\ dispatched["b1"] = 0
        /\ pc[w] = "mark" /\ cur[w] = "m1"
        /\ dispatched["m1"] = 1
        /\ rec["m1"].status = "retry_scheduled"

\* ------------------------------------------------------------------ C40
\* C40: a store connection error never ends the loop and adds nothing to the
\* count that is tested against the ceiling (it leaves consecutive_errors as
\* it is, or at 0 after a successful reconnect); a successful claim and an
\* empty poll both set the count to 0.
ConnectionErrorsDoNotCount ==
    [][\A w \in Workers :
          /\ (\E ping_ok \in BOOLEAN : ConnError(w, ping_ok)) =>
                /\ pc'[w] # "stopped"
                /\ cerr'[w] \in {0, cerr[w]}
          /\ Claim(w) => cerr'[w] = 0
          /\ BrpopTimeout(w) => cerr'[w] = 0]_vars
====
